---- MODULE Spec2Model ----
(***************************************************************************)
(* Ingestion pipeline and index synchronizer of azure_ai_search.           *)
(*                                                                         *)
(* DocumentProcessor.process_document (src/main.py and its "main copy",    *)
(* src/document_search/vector_uploader.py:177-258) drives                  *)
(*   upload_to_blob -> chunk_with_overlap -> embed_chunks ->               *)
(*   delete_all_files -> upload_to_azure (once per chunk).                 *)
(* Every remote call is one step of the model; the remote index, the blob  *)
(* store and the embedding service answer nondeterministically.            *)
(***************************************************************************)
EXTENDS Integers, Sequences, FiniteSets, TLC

(***************************************************************************)
(* Bounds of the model.                                                    *)
(***************************************************************************)
NumProcs == 2        \* callers that may invoke process_document
MaxRuns == 2         \* invocations of process_document in one behaviour
MaxTokens == 2       \* longest token stream of a document
MaxChunkSize == 2    \* the chunk_size of the pipeline configuration
MaxExtra == 1        \* pre-existing records beyond one fetch page
MaxStream == 5       \* longest token stream given to chunk_with_overlap directly
MaxWindow == 3       \* largest max_tokens and overlap given to it
MaxList == 4         \* longest list of chunks given to embed_chunks directly
MaxBatch == 3        \* largest batch_size given to it
MaxChars == 5       \* characters of a text given to chunk_text_by_words
MaxTop == 2         \* largest small value of top given to search_documents
MaxSkip == 1        \* largest value of skip given to search_documents
MaxHits == 2        \* records in an answer of the search service

(***************************************************************************)
(* Program constants.                                                      *)
(***************************************************************************)
DefaultBatchSize == 1000     \* delete_all_files(batch_size=1000)
DefaultEmbedBatch == 10      \* embed_chunks(batch_size=10)
SearchTopLimit == 1000       \* "top": min(top, 1000)

Procs == 1..NumProcs

Min(a, b) == IF a <= b THEN a ELSE b
Max(a, b) == IF a >= b THEN a ELSE b

Range(s) == {s[i] : i \in 1..Len(s)}

(***************************************************************************)
(* Inputs.  A document id is a string, modelled as a sequence of           *)
(* characters so that the id of a record is a concatenation.  A text is    *)
(* modelled by the token stream the tokenizer makes of it.                 *)
(***************************************************************************)
DocIds == {<<>>, <<"a">>, <<"b">>}
Texts == {[i \in 1..n |-> i] : n \in 0..MaxTokens}
NoTags == <<>>
DefaultTags == <<"technical section">>
TagChoices == {NoTags, <<"t1">>}
\* pipeline configurations: a valid one (overlap 1) and one that
\* _validate_chunk_params rejects (overlap = chunk_size)
Configs == {[chunk_size |-> MaxChunkSize, chunk_overlap |-> o] : o \in {1, MaxChunkSize}}
FileName == "document1.txt"
Wirings == {"main", "main_copy"}

(***************************************************************************)
(* TextChunker (src/document_processor/chunker.py)                         *)
(***************************************************************************)
\* a validation that does not reject a negative overlap
ValidChunkParamsNoSign(max_tokens, overlap) ==
    /\ ~(max_tokens <= 0)
    /\ ~(overlap >= max_tokens)

\* _validate_chunk_params: TRUE when no ValueError is raised
ValidChunkParams(max_tokens, overlap) ==
    /\ ~(max_tokens <= 0)
    /\ ~(overlap >= max_tokens)
    /\ ~(overlap < 0)

\* tokens[start:end] of Python, 0-based, end exclusive
Slice(tokens, start, end) == SubSeq(tokens, start + 1, end)

\* a loop that stops before the last token
LoopContinuesBeforeLast(tokens, start) == start < Len(tokens) - 1

\* a loop that runs once more, with start = len(tokens)
LoopContinuesAtEnd(tokens, start) == start <= Len(tokens)

\* while start < len(tokens)
LoopContinues(tokens, start) == start < Len(tokens)

\* a window that stops one token early
WindowShort(tokens, start, max_tokens) ==
    Slice(tokens, start, Min(start + max_tokens, Len(tokens)) - 1)

\* end = min(start + max_tokens, len(tokens)); chunk = tokens[start:end]
Window(tokens, start, max_tokens) ==
    Slice(tokens, start, Min(start + max_tokens, Len(tokens)))

\* a loop that advances one token further
NextStartOneMore(start, max_tokens, overlap) == start + max_tokens - overlap + 1

\* a loop that advances by a whole window
NextStartNoOverlap(start, max_tokens, overlap) == start + max_tokens

\* start += max_tokens - overlap
NextStart(start, max_tokens, overlap) == start + (max_tokens - overlap)

\* the while loop of chunk_with_overlap, from position start with the chunks
\* appended so far
RECURSIVE OverlapLoop(_, _, _, _, _)
OverlapLoop(tokens, max_tokens, overlap, start, chunks) ==
    IF LoopContinues(tokens, start)
    THEN OverlapLoop(tokens, max_tokens, overlap,
                     NextStart(start, max_tokens, overlap),
                     Append(chunks, Window(tokens, start, max_tokens)))
    ELSE chunks

\* the tokenizer raises on content it does not accept; the empty text has none,
\* and no window of it is decoded
TokenizerMayRaise(text) == text # <<>>

\* chunk_with_overlap on a text whose parameters are valid
ChunkWithOverlap(tokens, max_tokens, overlap) ==
    OverlapLoop(tokens, max_tokens, overlap, 0, <<>>)

(***************************************************************************)
(* TextChunker.chunk_text_by_words: a text is a sequence of characters.    *)
(***************************************************************************)
Whitespace == {" ", "\n"}

RECURSIVE SplitLoop(_, _, _)
SplitLoop(text, word, words) ==
    IF text = <<>>
    THEN IF word = <<>> THEN words ELSE Append(words, word)
    ELSE IF Head(text) \in Whitespace
         THEN SplitLoop(Tail(text), <<>>,
                        IF word = <<>> THEN words ELSE Append(words, word))
         ELSE SplitLoop(Tail(text), Append(word, Head(text)), words)

\* text.split(): the maximal runs of characters that are not whitespace
Split(text) == SplitLoop(text, <<>>, <<>>)

RECURSIVE JoinNoSeparator(_)
\* ''.join(words)
JoinNoSeparator(words) ==
    IF words = <<>> THEN <<>> ELSE Head(words) \o JoinNoSeparator(Tail(words))

RECURSIVE Join(_)
\* ' '.join(words)
Join(words) ==
    IF words = <<>> THEN <<>>
    ELSE IF Len(words) = 1 THEN Head(words)
    ELSE Head(words) \o <<" ">> \o Join(Tail(words))

\* _validate_chunk_params(max_tokens), overlap left at None
ValidMaxTokens(max_tokens) == max_tokens > 0

RECURSIVE WordChunks(_, _, _)
\* [' '.join(words[i:i + max_tokens]) for i in range(i, len(words), max_tokens)]
WordChunks(words, max_tokens, i) ==
    IF i < Len(words)
    THEN <<Join(Slice(words, i, Min(i + max_tokens, Len(words))))>>
             \o WordChunks(words, max_tokens, i + max_tokens)
    ELSE <<>>

(***************************************************************************)
(* DocumentChunk.create_chunk                                              *)
(***************************************************************************)
RECURSIVE Decimal(_)
\* str(n) for n >= 0, as a sequence of digit characters
Decimal(n) ==
    LET d == <<"0", "1", "2", "3", "4", "5", "6", "7", "8", "9">>
    IN  IF n < 10 THEN <<d[n + 1]>> ELSE Decimal(n \div 10) \o <<d[(n % 10) + 1]>>

\* an id that leaves the chunk index out
ChunkIdNoIndex(document_id, chunk_index) ==
    document_id \o <<"_", "c", "h", "u", "n", "k">>

\* f"{document_id}_chunk{chunk_index}"
ChunkId(document_id, chunk_index) ==
    document_id \o <<"_", "c", "h", "u", "n", "k">> \o Decimal(chunk_index)

CreateChunk(document_id, chunk_index, content, tags, embeddings) ==
    [id |-> ChunkId(document_id, chunk_index),
     document_id |-> document_id,
     content |-> content,
     tags |-> tags,
     embeddings |-> embeddings]

(***************************************************************************)
(* The embedding service: the vector it returns for a text.                *)
(***************************************************************************)
EmbeddingOf(chunk) == <<"vec", chunk>>

(***************************************************************************)
(* State.                                                                  *)
(***************************************************************************)
VARIABLES
    wiring,       \* which script runs: src/main.py or its "main copy"
    config,       \* PipelineConfig: chunk_size and chunk_overlap
    index,        \* the remote index: the set of records it holds, one per id
    bulk,         \* number of further records in the index, not written by this program
    blobs,        \* the blob container: names of the files uploaded to it
    runs,         \* invocations of process_document so far
    stage,        \* stage[p]: where the invocation of caller p stands
    err,          \* err[p]: the exception the invocation raised, "" for none
    req,          \* req[p]: the arguments of the invocation
    chunks,       \* chunks[p]: result of chunk_with_overlap
    embI,         \* embI[p]: loop variable i of embed_chunks
    responses,    \* responses[p]: vectors of the batch being collected
    embeddings,   \* embeddings[p]: the list embed_chunks builds and returns
    fetched,      \* fetched[p]: document_ids of delete_all_files
    pubIdx,       \* pubIdx[p]: iterations of the publish loop done
    embedCalls,   \* embedCalls[p]: the calls to the embedding service: text and answer
    fetchLog,     \* fetchLog[p]: answers to the search requests of delete_all_files
    deleteLog,    \* deleteLog[p]: answers to its bulk delete requests
    clearRet,     \* clearRet[p]: value delete_all_files returned, -1 for none
    clearSeen,    \* clearSeen[p]: records the index held when it answered the search
    cleared,      \* cleared[p]: delete_all_files has returned in this invocation
    publishLog,   \* publishLog[p]: the upload requests issued, with their answers
    pending,      \* pending[p]: the invocation waits for the answer to an upload request
    single,       \* the call of Embedder.embed_single in progress
    chunker,      \* the direct call of TextChunker.chunk_with_overlap in progress
    embedder,     \* the direct call of Embedder.embed_chunks in progress
    byWords,      \* the direct call of TextChunker.chunk_text_by_words in progress
    search,       \* the call of AzureSearchClient.search_documents in progress
    byTokens      \* the direct call of TextChunker.chunk_by_tokens in progress

vars == <<wiring, config, index, bulk, blobs, runs, stage, err, req, chunks, embI,
          responses, embeddings, fetched, pubIdx, embedCalls, fetchLog, deleteLog,
          clearRet, clearSeen, cleared, publishLog, pending, single, chunker,
          embedder, byWords, search, byTokens>>

setup == <<wiring, config>>
remote == <<index, bulk, blobs>>
embedVars == <<embI, responses, embeddings, embedCalls>>
clearVars == <<fetched, fetchLog, deleteLog, clearRet, clearSeen, cleared>>
publishVars == <<pubIdx, publishLog, pending>>
direct == <<chunker, embedder, byWords, search, byTokens>>

Stages == {"Idle", "NotStarted", "Uploaded", "Chunked", "Embedded",
           "IndexCleared", "Publishing", "Complete", "Failed"}
Terminal == {"Complete", "Failed"}

NoReq == [file_exists |-> FALSE, document_id |-> <<>>, tags |-> NoTags,
          text |-> <<>>]
NoPage == [valid |-> FALSE, ids |-> {}, bulk |-> 0]
NoSingle == [state |-> "idle", text |-> <<>>, calls |-> 0, result |-> <<>>, err |-> ""]

\* the arguments of process_document; those the code does not read (the file
\* is missing, or the document id is empty) are left at one value
Requests ==
    {NoReq, [NoReq EXCEPT !.file_exists = TRUE]}
    \cup {[file_exists |-> TRUE, document_id |-> d, tags |-> t, text |-> x] :
             d \in DocIds \ {<<>>}, t \in TagChoices, x \in Texts}

Ids(records) == {r.id : r \in records}

\* no direct call of chunk_with_overlap, and the calls a caller can make:
\* every token stream with every max_tokens and overlap, the invalid included
NoChunker == [state |-> "idle", text |-> <<>>, max_tokens |-> 0, overlap |-> 0,
              encodes |-> 0, tokens |-> <<>>, start |-> 0, chunks |-> <<>>,
              err |-> ""]
Streams == {[i \in 1..n |-> i] : n \in 0..MaxStream}
ChunkerCalls ==
    {[NoChunker EXCEPT !.state = "called", !.text = x, !.max_tokens = m,
                       !.overlap = o] :
        x \in Streams, m \in -1..MaxWindow, o \in -1..MaxWindow}

\* no direct call of chunk_by_tokens, and the calls a caller can make: every
\* token stream with every max_tokens
NoTokens == [state |-> "idle", text |-> <<>>, max_tokens |-> 0, tokens |-> <<>>,
             chunks |-> <<>>, err |-> ""]
TokensCalls ==
    {[NoTokens EXCEPT !.state = "called", !.text = x, !.max_tokens = m] :
        x \in Streams, m \in -1..MaxWindow}

\* no direct call of chunk_text_by_words, and the calls a caller can make:
\* every text of letters and whitespace with every max_tokens
NoWords == [state |-> "idle", text |-> <<>>, max_tokens |-> 0, words |-> <<>>,
            chunks |-> <<>>, err |-> ""]
Chars == {"a", "b"} \cup Whitespace
WordTexts == UNION {[1..n -> Chars] : n \in 0..MaxChars}
WordsCalls ==
    {[NoWords EXCEPT !.state = "called", !.text = x, !.max_tokens = m] :
        x \in WordTexts, m \in -1..MaxWindow}

\* the records of an answer of the search service: two complete ones, one with
\* the required keys only, one without "id"; score stands for "@search.score"
JsonDocs ==
    {[id |-> "doc1", documentid |-> "test1", content |-> "Test content 1",
      score |-> 8, tags |-> <<"technical">>],
     [id |-> "doc2", documentid |-> "test2", content |-> "Test content 2",
      score |-> 6, tags |-> <<"research">>],
     [id |-> "doc3", documentid |-> "test3"],
     [documentid |-> "test4", content |-> "Test content 4"]}
Hits == UNION {[1..n -> JsonDocs] : n \in 0..MaxHits}
Statuses == {200, 204, 400, 503}

\* what requests.post gives: an exception, or a response with a status and a
\* body; json: the body is JSON, keyed: it has the key "value"
NoAnswer == [kind |-> "none", status |-> 0, json |-> FALSE, keyed |-> FALSE,
             value |-> <<>>]
Answers ==
    {[NoAnswer EXCEPT !.kind = "exception"]}
    \cup {[NoAnswer EXCEPT !.kind = "response", !.status = c] : c \in Statuses}
    \cup {[NoAnswer EXCEPT !.kind = "response", !.status = c, !.json = TRUE] :
              c \in Statuses}
    \cup {[NoAnswer EXCEPT !.kind = "response", !.status = 200, !.json = TRUE,
                           !.keyed = TRUE, !.value = v] : v \in Hits}

\* no call of search_documents, and the calls a caller can make
NoSearch == [state |-> "idle", query |-> "", top |-> 0, skip |-> 0,
             filter_tags |-> <<>>, order_by |-> "", sent |-> <<>>,
             answer |-> NoAnswer, results |-> <<>>, err |-> ""]
SearchCalls ==
    {[NoSearch EXCEPT !.state = "called", !.query = q, !.top = t, !.skip = k,
                      !.filter_tags = f, !.order_by = o] :
        q \in {"", "q"}, t \in (0..MaxTop) \cup {SearchTopLimit + 1},
        k \in -1..MaxSkip, f \in TagChoices, o \in {"", "id"}}

\* no direct call of embed_chunks, and the calls a caller can make: every list
\* of chunks with every batch_size
NoEmbedder == [state |-> "idle", chunks |-> <<>>, batch_size |-> 0, i |-> 0,
               responses |-> <<>>, embeddings |-> <<>>, calls |-> <<>>, err |-> ""]
ChunkTexts == {<<1>>, <<1, 2>>}
RECURSIVE Lists(_)
Lists(n) ==
    IF n = 0 THEN {<<>>}
    ELSE Lists(n - 1) \cup {Append(l, c) : l \in {k \in Lists(n - 1) : Len(k) = n - 1},
                                           c \in ChunkTexts}
EmbedderCalls ==
    {[NoEmbedder EXCEPT !.state = "called", !.chunks = cs, !.batch_size = b] :
        cs \in Lists(MaxList), b \in -1..MaxBatch}

Init ==
    /\ wiring \in Wirings
    /\ config \in Configs
    /\ index = {}
    /\ bulk \in {0, DefaultBatchSize + MaxExtra}
    /\ blobs = {}
    /\ runs = 0
    /\ stage = [p \in Procs |-> "Idle"]
    /\ err = [p \in Procs |-> ""]
    /\ req = [p \in Procs |-> NoReq]
    /\ chunks = [p \in Procs |-> <<>>]
    /\ embI = [p \in Procs |-> 0]
    /\ responses = [p \in Procs |-> <<>>]
    /\ embeddings = [p \in Procs |-> <<>>]
    /\ fetched = [p \in Procs |-> NoPage]
    /\ pubIdx = [p \in Procs |-> 0]
    /\ embedCalls = [p \in Procs |-> <<>>]
    /\ fetchLog = [p \in Procs |-> <<>>]
    /\ deleteLog = [p \in Procs |-> <<>>]
    /\ clearRet = [p \in Procs |-> -1]
    /\ clearSeen = [p \in Procs |-> -1]
    /\ cleared = [p \in Procs |-> FALSE]
    /\ publishLog = [p \in Procs |-> <<>>]
    /\ pending = [p \in Procs |-> FALSE]
    /\ single = NoSingle
    /\ chunker = NoChunker
    /\ byWords = NoWords
    /\ search = NoSearch
    /\ byTokens = NoTokens
    /\ embedder = NoEmbedder

\* an except clause that logs and does not re-raise: the call returns normally
RaiseSwallowed(p, e) ==
    /\ stage' = [stage EXCEPT ![p] = "Complete"]
    /\ err' = [err EXCEPT ![p] = ""]

\* the except clause of process_document: log and re-raise
Raise(p, e) ==
    /\ stage' = [stage EXCEPT ![p] = "Failed"]
    /\ err' = [err EXCEPT ![p] = e]

Advance(p, s) ==
    /\ stage' = [stage EXCEPT ![p] = s]
    /\ UNCHANGED err

(***************************************************************************)
(* process_document, lines 86-93: the checks before the try block.         *)
(***************************************************************************)
\* the tags of the caller passed on as they are
EffectiveTagsRaw(tags) == tags

\* tags = tags or ["technical section"]
EffectiveTags(tags) == IF tags = NoTags THEN DefaultTags ELSE tags

\* process_document without the check of file_path.exists()
BeginUnchecked(p) ==
    /\ stage[p] = "Idle"
    /\ runs < MaxRuns
    /\ \E r \in Requests :
          /\ req' = [req EXCEPT ![p] = r]
          /\ IF r.document_id = <<>> THEN Raise(p, "ValueError")
             ELSE Advance(p, "NotStarted")
    /\ runs' = runs + 1
    /\ UNCHANGED <<setup, direct, remote, chunks, embedVars, clearVars, publishVars, single>>

Begin(p) ==
    /\ stage[p] = "Idle"
    /\ runs < MaxRuns
    /\ \E r \in Requests :
          /\ req' = [req EXCEPT ![p] = r]
          /\ IF ~r.file_exists THEN Raise(p, "FileNotFoundError")
             ELSE IF r.document_id = <<>> THEN Raise(p, "ValueError")
             ELSE Advance(p, "NotStarted")
    /\ runs' = runs + 1
    /\ UNCHANGED <<setup, direct, remote, chunks, embedVars, clearVars, publishVars, single>>

\* at most one ingestion in flight
BeginAlone(p) ==
    /\ \A q \in Procs : stage[q] = "Idle"
    /\ single.state = "idle"
    /\ Begin(p)

(***************************************************************************)
(* Step 1: upload_to_blob                                                  *)
(***************************************************************************)
UploadBlob(p) ==
    /\ stage[p] = "NotStarted"
    /\ \E ok \in BOOLEAN :
          IF ok
          THEN /\ blobs' = blobs \cup {FileName}
               /\ Advance(p, "Uploaded")
          ELSE /\ UNCHANGED blobs
               /\ Raise(p, "BlobUploadError")
    /\ UNCHANGED <<setup, direct, index, bulk, runs, req, chunks, embedVars, clearVars,
                   publishVars, single>>

(***************************************************************************)
(* Step 2: read_text and chunk_with_overlap                                *)
(***************************************************************************)
ChunkOutcomes == {"ok", "read_error", "tokenizer_error"}

Chunk(p) ==
    /\ stage[p] = "Uploaded"
    /\ \E outcome \in ChunkOutcomes :
          IF outcome = "read_error"
          THEN Raise(p, "UnicodeDecodeError") /\ UNCHANGED chunks
          ELSE IF ~ValidChunkParams(config.chunk_size, config.chunk_overlap)
          THEN Raise(p, "ValueError") /\ UNCHANGED chunks
          ELSE IF outcome = "tokenizer_error" /\ TokenizerMayRaise(req[p].text)
          THEN Raise(p, "ChunkerError") /\ UNCHANGED chunks
          ELSE /\ chunks' = [chunks EXCEPT ![p] =
                       ChunkWithOverlap(req[p].text, config.chunk_size,
                                        config.chunk_overlap)]
               /\ Advance(p, "Chunked")
    /\ UNCHANGED <<setup, direct, remote, runs, req, embedVars, clearVars, publishVars, single>>

(***************************************************************************)
(* Step 3: Embedder.embed_chunks(chunks), batch_size = 10                  *)
(***************************************************************************)
\* embed_chunks([]) returns [] without calling the service
EmbedEmpty(p) ==
    /\ stage[p] = "Chunked"
    /\ chunks[p] = <<>>
    /\ embeddings' = [embeddings EXCEPT ![p] = <<>>]
    /\ Advance(p, "Embedded")
    /\ UNCHANGED <<setup, direct, remote, runs, req, chunks, embI, responses, embedCalls,
                   clearVars, publishVars, single>>

\* the batch chunks[i:i + batch_size]
Batch(cs, i, batch_size) == Slice(cs, i, Min(i + batch_size, Len(cs)))

\* the vectors of a batch put in front of those collected before
ExtendReversed(embs, batch_embeddings) == batch_embeddings \o embs

\* embeddings.extend(batch_embeddings)
Extend(embs, batch_embeddings) == embs \o batch_embeddings

\* an except clause that returns the vectors collected so far
EmbedFailPartial(p) ==
    /\ Advance(p, "Embedded")
    /\ responses' = [responses EXCEPT ![p] = <<>>]
    /\ embeddings' = [embeddings EXCEPT ![p] = @ \o responses[p]]
    /\ UNCHANGED embI

\* an except clause that lets the loop ask again for the same chunk
EmbedFailRetry(p) ==
    UNCHANGED <<stage, err, responses, embeddings, embI>>

\* the except clause of embed_chunks: EmbeddingError, no list is returned
EmbedFail(p) ==
    /\ Raise(p, "EmbeddingError")
    /\ responses' = [responses EXCEPT ![p] = <<>>]
    /\ embeddings' = [embeddings EXCEPT ![p] = <<>>]
    /\ UNCHANGED embI

\* one call self._client.embeddings.create(input=chunk) and what follows it:
\* the end of the batch, the end of the loop, or the except clause
EmbedCall(p) ==
    /\ stage[p] = "Chunked"
    /\ chunks[p] # <<>>
    /\ LET batch == Batch(chunks[p], embI[p], DefaultEmbedBatch)
           chunk == batch[Len(responses[p]) + 1]
           resp == Append(responses[p], EmbeddingOf(chunk))
           next == embI[p] + DefaultEmbedBatch
       IN  \E ok \in BOOLEAN :
              /\ embedCalls' = [embedCalls EXCEPT ![p] =
                                   Append(@, [text |-> chunk, ok |-> ok])]
              /\ IF ~ok
                 THEN EmbedFail(p)
                 ELSE IF Len(resp) < Len(batch)
                 THEN /\ responses' = [responses EXCEPT ![p] = resp]
                      /\ UNCHANGED <<embeddings, embI, stage, err>>
                 ELSE /\ responses' = [responses EXCEPT ![p] = <<>>]
                      /\ embeddings' = [embeddings EXCEPT ![p] = Extend(@, resp)]
                      /\ embI' = [embI EXCEPT ![p] = next]
                      /\ IF next < Len(chunks[p])
                         THEN UNCHANGED <<stage, err>>
                         ELSE Advance(p, "Embedded")
    /\ UNCHANGED <<setup, direct, remote, runs, req, chunks, clearVars, publishVars, single>>

(***************************************************************************)
(* Step 4: delete_all_files                                                *)
(***************************************************************************)
\* src/main.py passes one argument to the function it imports from
\* azure_uploader, which requires three: the call raises TypeError
ClearTypeError(p) ==
    /\ stage[p] = "Embedded"
    /\ wiring = "main"
    /\ Raise(p, "TypeError")
    /\ UNCHANGED <<setup, direct, remote, runs, req, chunks, embedVars, clearVars,
                   publishVars, single>>

FetchOutcomes == {"200", "503", "timeout"}
DeleteOutcomes == {"200", "207", "503", "timeout"}

\* a search that returns every record of the index, whatever batch_size
PagesWhole(batch_size) ==
    {[valid |-> TRUE, ids |-> Ids(index), bulk |-> bulk]}

\* the pages a search for "*" with top = batch_size can return: batch_size
\* records of the index, or all of them when it holds fewer
Pages(batch_size) ==
    LET total == Cardinality(index) + bulk
        n == Min(batch_size, total)
    IN  {[valid |-> TRUE, ids |-> S, bulk |-> n - Cardinality(S)] :
            S \in {T \in SUBSET Ids(index) :
                      /\ Cardinality(T) <= n
                      /\ n - Cardinality(T) <= bulk}}

\* len(document_ids)
PageSize(page) == Cardinality(page.ids) + page.bulk

\* a delete request issued also for an empty page
NoDocumentsNever(page) == FALSE

\* if not document_ids
NoDocuments(page) == PageSize(page) = 0

\* a fetch whose answer is never checked
FetchNeverFailed(outcome) == FALSE

\* if response.status_code != 200, and the except clauses
FetchFailed(outcome) == outcome # "200"

\* the search request of delete_all_files and the check of its answer
ClearFetch(p) ==
    /\ stage[p] = "Embedded"
    /\ wiring = "main_copy"
    /\ ~fetched[p].valid
    /\ \E outcome \in FetchOutcomes :
          /\ fetchLog' = [fetchLog EXCEPT ![p] = Append(@, outcome)]
          /\ IF FetchFailed(outcome)
             THEN /\ Raise(p, "AzureSearchError")
                  /\ UNCHANGED <<fetched, clearRet, clearSeen, cleared>>
             ELSE /\ clearSeen' = [clearSeen EXCEPT ![p] = Cardinality(index) + bulk]
                  /\ \E page \in Pages(DefaultBatchSize) :
                        IF NoDocuments(page)
                        THEN /\ clearRet' = [clearRet EXCEPT ![p] = 0]
                             /\ cleared' = [cleared EXCEPT ![p] = TRUE]
                             /\ Advance(p, "IndexCleared")
                             /\ UNCHANGED fetched
                        ELSE /\ fetched' = [fetched EXCEPT ![p] = page]
                             /\ UNCHANGED <<clearRet, cleared, stage, err>>
    /\ UNCHANGED <<setup, direct, remote, runs, req, chunks, embedVars, deleteLog,
                   publishVars, single>>

\* what a bulk delete answered with 207 (some actions failed) has removed
PartialDeletes(page) ==
    {[ids |-> R, bulk |-> b] : R \in SUBSET page.ids, b \in {0, page.bulk}}
        \ {[ids |-> page.ids, bulk |-> page.bulk]}

DeleteFrom(records, ids) == {r \in records : r.id \notin ids}

\* if delete_response.status_code not in (200, 207), and the except clauses
DeleteFailed(outcome) == outcome \notin {"200", "207"}

\* the bulk delete request of delete_all_files and the check of its answer
ClearDelete(p) ==
    /\ stage[p] = "Embedded"
    /\ fetched[p].valid
    /\ fetched' = [fetched EXCEPT ![p] = NoPage]
    /\ \E outcome \in DeleteOutcomes :
          /\ deleteLog' = [deleteLog EXCEPT ![p] = Append(@, outcome)]
          /\ CASE outcome = "200" ->
                    /\ index' = DeleteFrom(index, fetched[p].ids)
                    /\ bulk' = Max(0, bulk - fetched[p].bulk)
               [] outcome = "207" ->
                    \E gone \in PartialDeletes(fetched[p]) :
                       /\ index' = DeleteFrom(index, gone.ids)
                       /\ bulk' = Max(0, bulk - gone.bulk)
               [] OTHER -> UNCHANGED <<index, bulk>>
          /\ IF DeleteFailed(outcome)
             THEN /\ Raise(p, "AzureSearchError")
                  /\ UNCHANGED <<clearRet, cleared>>
             ELSE /\ clearRet' = [clearRet EXCEPT ![p] = PageSize(fetched[p])]
                  /\ cleared' = [cleared EXCEPT ![p] = TRUE]
                  /\ Advance(p, "IndexCleared")
    /\ UNCHANGED <<setup, direct, blobs, runs, req, chunks, embedVars, fetchLog, clearSeen,
                   publishVars, single>>

(***************************************************************************)
(* Step 5: the publish loop over enumerate(zip(chunks, embeddings), 1)     *)
(***************************************************************************)
\* process_document drops what delete_all_files returned and starts the loop
BeginPublish(p) ==
    /\ stage[p] = "IndexCleared"
    /\ pubIdx' = [pubIdx EXCEPT ![p] = 0]
    /\ clearRet' = [clearRet EXCEPT ![p] = -1]
    /\ clearSeen' = [clearSeen EXCEPT ![p] = -1]
    /\ Advance(p, "Publishing")
    /\ UNCHANGED <<setup, direct, remote, runs, req, chunks, embedVars, fetched, fetchLog,
                   deleteLog, cleared, publishLog, pending, single>>

\* a loop that stops one pair early
PairsDropLast(p) == Max(0, Min(Len(chunks[p]), Len(embeddings[p])) - 1)

\* len(zip(chunks, embeddings))
Pairs(p) == Min(Len(chunks[p]), Len(embeddings[p]))

\* a pairing that takes the embeddings from the end of the list
PairAtCrossed(p, i) ==
    [chunk |-> chunks[p][i], embedding |-> embeddings[p][Pairs(p) + 1 - i]]

\* the i-th element of zip(chunks, embeddings)
PairAt(p, i) == [chunk |-> chunks[p][i], embedding |-> embeddings[p][i]]

PublishOutcomes == {"200", "503", "exception"}

\* an upload that replaces the content of the index by the one record
UpsertAlone(records, rec) == {rec}

\* an upload action on the index: insert, or replace the record of that id
Upsert(records, rec) == {r \in records : r.id # rec.id} \cup {rec}

\* upload_to_azure (azure_uploader): the status is printed, an exception is
\* printed; neither is raised
UploadRaises(outcome) == FALSE

\* one iteration of the loop: create_chunk, then upload_to_azure
Publish(p) ==
    /\ stage[p] = "Publishing"
    /\ ~pending[p]
    /\ pubIdx[p] < Pairs(p)
    /\ LET i == pubIdx[p] + 1
           doc_chunk == CreateChunk(req[p].document_id, i, PairAt(p, i).chunk,
                                    EffectiveTags(req[p].tags), PairAt(p, i).embedding)
       IN  /\ pubIdx' = [pubIdx EXCEPT ![p] = i]
           /\ \E outcome \in PublishOutcomes :
                 /\ index' = IF outcome = "200" THEN Upsert(index, doc_chunk) ELSE index
                 /\ publishLog' = [publishLog EXCEPT ![p] =
                       Append(@, [document |-> doc_chunk, answer |-> outcome])]
                 /\ IF UploadRaises(outcome)
                    THEN Raise(p, "AzureSearchError")
                    ELSE UNCHANGED <<stage, err>>
    /\ UNCHANGED <<setup, direct, bulk, blobs, runs, req, chunks, embedVars, clearVars,
                   pending, single>>

\* requests.post(document_endpoint, headers=headers, json=data) is given no
\* timeout: when the service does not answer, the call does not return.  The
\* service may have applied the upload.
PublishHang(p) ==
    /\ stage[p] = "Publishing"
    /\ ~pending[p]
    /\ pubIdx[p] < Pairs(p)
    /\ LET i == pubIdx[p] + 1
           doc_chunk == CreateChunk(req[p].document_id, i, PairAt(p, i).chunk,
                                    EffectiveTags(req[p].tags), PairAt(p, i).embedding)
       IN  /\ pubIdx' = [pubIdx EXCEPT ![p] = i]
           /\ pending' = [pending EXCEPT ![p] = TRUE]
           /\ publishLog' = [publishLog EXCEPT ![p] =
                 Append(@, [document |-> doc_chunk, answer |-> "none"])]
           /\ \E applied \in BOOLEAN :
                 index' = IF applied THEN Upsert(index, doc_chunk) ELSE index
    /\ UNCHANGED <<setup, direct, bulk, blobs, runs, req, chunks, embedVars, clearVars,
                   stage, err, single>>

\* "complete" logged before the loop is exhausted
FinishEarly(p) ==
    /\ stage[p] = "Publishing"
    /\ Advance(p, "Complete")
    /\ UNCHANGED <<setup, direct, remote, runs, req, chunks, embedVars, clearVars,
                   publishVars, single>>

\* the loop is exhausted: "Document processing complete"
Finish(p) ==
    /\ stage[p] = "Publishing"
    /\ ~pending[p]
    /\ pubIdx[p] = Pairs(p)
    /\ Advance(p, "Complete")
    /\ UNCHANGED <<setup, direct, remote, runs, req, chunks, embedVars, clearVars,
                   publishVars, single>>

(***************************************************************************)
(* process_document returns, or raises, to its caller                      *)
(***************************************************************************)
Return(p) ==
    /\ stage[p] \in Terminal
    /\ stage' = [stage EXCEPT ![p] = "Idle"]
    /\ err' = [err EXCEPT ![p] = ""]
    /\ req' = [req EXCEPT ![p] = NoReq]
    /\ chunks' = [chunks EXCEPT ![p] = <<>>]
    /\ embI' = [embI EXCEPT ![p] = 0]
    /\ responses' = [responses EXCEPT ![p] = <<>>]
    /\ embeddings' = [embeddings EXCEPT ![p] = <<>>]
    /\ fetched' = [fetched EXCEPT ![p] = NoPage]
    /\ pubIdx' = [pubIdx EXCEPT ![p] = 0]
    /\ embedCalls' = [embedCalls EXCEPT ![p] = <<>>]
    /\ fetchLog' = [fetchLog EXCEPT ![p] = <<>>]
    /\ deleteLog' = [deleteLog EXCEPT ![p] = <<>>]
    /\ clearRet' = [clearRet EXCEPT ![p] = -1]
    /\ clearSeen' = [clearSeen EXCEPT ![p] = -1]
    /\ cleared' = [cleared EXCEPT ![p] = FALSE]
    /\ publishLog' = [publishLog EXCEPT ![p] = <<>>]
    /\ UNCHANGED <<setup, direct, remote, runs, pending, single>>

(***************************************************************************)
(* Embedder.embed_single                                                   *)
(***************************************************************************)
\* the call of the service and the except clause
EmbedSingle ==
    /\ single.state = "idle"
    /\ \A q \in Procs : stage[q] = "Idle"
    /\ \E text \in Texts, ok \in BOOLEAN :
          single' = [state |-> "done", text |-> text, calls |-> 1,
                     result |-> IF ok THEN EmbeddingOf(text) ELSE <<>>,
                     err |-> IF ok THEN "" ELSE "EmbeddingError"]
    /\ UNCHANGED <<setup, direct, remote, runs, stage, err, req, chunks, embedVars,
                   clearVars, publishVars>>

SingleReturn ==
    /\ single.state = "done"
    /\ single' = NoSingle
    /\ UNCHANGED <<setup, direct, remote, runs, stage, err, req, chunks, embedVars,
                   clearVars, publishVars>>

(***************************************************************************)
(* Specification: callers invoke process_document one at a time.           *)
(***************************************************************************)
Next ==
    \/ \E p \in Procs : BeginAlone(p)
    \/ \E p \in Procs : UploadBlob(p)
    \/ \E p \in Procs : Chunk(p)
    \/ \E p \in Procs : EmbedEmpty(p)
    \/ \E p \in Procs : EmbedCall(p)
    \/ \E p \in Procs : ClearTypeError(p)
    \/ \E p \in Procs : ClearFetch(p)
    \/ \E p \in Procs : ClearDelete(p)
    \/ \E p \in Procs : BeginPublish(p)
    \/ \E p \in Procs : Publish(p)
    \/ \E p \in Procs : Finish(p)
    \/ \E p \in Procs : Return(p)
    \/ EmbedSingle
    \/ SingleReturn

Spec == Init /\ [][Next]_vars

(***************************************************************************)
(* TextChunker.chunk_with_overlap called directly, one step per statement  *)
(* that can raise and per iteration of its loop.                           *)
(***************************************************************************)
pipeline == <<setup, remote, runs, stage, err, req, chunks, embedVars, clearVars,
              publishVars, single>>

\* no invocation of process_document has been made
PipelineIdle ==
    /\ wiring = "main_copy"
    /\ config = [chunk_size |-> MaxChunkSize, chunk_overlap |-> 1]
    /\ index = {}
    /\ bulk = 0
    /\ blobs = {}
    /\ runs = 0
    /\ stage = [p \in Procs |-> "Idle"]
    /\ err = [p \in Procs |-> ""]
    /\ req = [p \in Procs |-> NoReq]
    /\ chunks = [p \in Procs |-> <<>>]
    /\ embI = [p \in Procs |-> 0]
    /\ responses = [p \in Procs |-> <<>>]
    /\ embeddings = [p \in Procs |-> <<>>]
    /\ fetched = [p \in Procs |-> NoPage]
    /\ pubIdx = [p \in Procs |-> 0]
    /\ embedCalls = [p \in Procs |-> <<>>]
    /\ fetchLog = [p \in Procs |-> <<>>]
    /\ deleteLog = [p \in Procs |-> <<>>]
    /\ clearRet = [p \in Procs |-> -1]
    /\ clearSeen = [p \in Procs |-> -1]
    /\ cleared = [p \in Procs |-> FALSE]
    /\ publishLog = [p \in Procs |-> <<>>]
    /\ pending = [p \in Procs |-> FALSE]
    /\ single = NoSingle

ChunkerInit ==
    /\ PipelineIdle
    /\ chunker \in ChunkerCalls
    /\ embedder = NoEmbedder
    /\ byWords = NoWords
    /\ search = NoSearch
    /\ byTokens = NoTokens

\* line 132: self._validate_chunk_params(max_tokens, overlap), outside the try
ChunkValidate ==
    /\ chunker.state = "called"
    /\ chunker' = IF ValidChunkParams(chunker.max_tokens, chunker.overlap)
                  THEN [chunker EXCEPT !.state = "validated"]
                  ELSE [chunker EXCEPT !.state = "raised", !.err = "ValueError"]
    /\ UNCHANGED <<pipeline, embedder, byWords, search, byTokens>>

\* line 135: tokens = self._tokenizer.encode(text); lines 146-147 when it raises
ChunkEncode ==
    /\ chunker.state = "validated"
    /\ \E ok \in BOOLEAN :
          chunker' = IF ok \/ ~TokenizerMayRaise(chunker.text)
                     THEN [chunker EXCEPT !.state = "loop", !.encodes = @ + 1,
                                          !.tokens = chunker.text, !.start = 0,
                                          !.chunks = <<>>]
                     ELSE [chunker EXCEPT !.state = "raised", !.encodes = @ + 1,
                                          !.err = "ChunkerError"]
    /\ UNCHANGED <<pipeline, embedder, byWords, search, byTokens>>

\* lines 139-143: one iteration of the loop; decode may raise
ChunkIterate ==
    /\ chunker.state = "loop"
    /\ LoopContinues(chunker.tokens, chunker.start)
    /\ \E ok \in BOOLEAN :
          chunker' = IF ok
                     THEN [chunker EXCEPT
                              !.chunks = Append(@, Window(chunker.tokens, chunker.start,
                                                          chunker.max_tokens)),
                              !.start = NextStart(@, chunker.max_tokens,
                                                  chunker.overlap)]
                     ELSE [chunker EXCEPT !.state = "raised", !.chunks = <<>>,
                                          !.err = "ChunkerError"]
    /\ UNCHANGED <<pipeline, embedder, byWords, search, byTokens>>

\* lines 139 and 145: the loop condition fails, return chunks
ChunkReturn ==
    /\ chunker.state = "loop"
    /\ ~LoopContinues(chunker.tokens, chunker.start)
    /\ chunker' = [chunker EXCEPT !.state = "returned"]
    /\ UNCHANGED <<pipeline, embedder, byWords, search, byTokens>>

ChunkerNext ==
    \/ ChunkValidate
    \/ ChunkEncode
    \/ ChunkIterate
    \/ ChunkReturn

ChunkerSpec == ChunkerInit /\ [][ChunkerNext]_vars

\* the call runs on: a step that can be taken is taken
ChunkerLiveSpec == ChunkerSpec /\ WF_vars(ChunkerNext)

(***************************************************************************)
(* Progress of an ingestion: the steps of a running invocation are taken   *)
(* when they can be; a request may stay without an answer.                 *)
(***************************************************************************)
Running(p) ==
    \/ UploadBlob(p)
    \/ Chunk(p)
    \/ EmbedEmpty(p)
    \/ EmbedCall(p)
    \/ ClearTypeError(p)
    \/ ClearFetch(p)
    \/ ClearDelete(p)
    \/ BeginPublish(p)
    \/ Publish(p)
    \/ Finish(p)

LiveNext ==
    \/ Next
    \/ \E p \in Procs : PublishHang(p)

LiveSpec == Init /\ [][LiveNext]_vars /\ \A p \in Procs : WF_vars(Running(p))

(***************************************************************************)
(* Two callers invoke process_document of the main copy at the same time,  *)
(* each for its own document, against one index.                           *)
(***************************************************************************)
Ingesters == {1, 2}
DocumentOf(p) == IF p = 1 THEN <<"a">> ELSE <<"b">>

ConcInit ==
    /\ PipelineIdle
    /\ chunker = NoChunker
    /\ byWords = NoWords
    /\ search = NoSearch
    /\ byTokens = NoTokens
    /\ embedder = NoEmbedder

\* process_document(file_path, document_id) of an existing file, with no lock
\* and no check of other invocations; two invocations are made in all
ConcBegin(p) ==
    /\ p \in Ingesters
    /\ runs < Cardinality(Ingesters)
    /\ Begin(p)
    /\ req'[p].file_exists
    /\ req'[p].document_id = DocumentOf(p)

ConcNext ==
    \/ \E p \in Procs : ConcBegin(p)
    \/ \E p \in Procs : UploadBlob(p)
    \/ \E p \in Procs : Chunk(p)
    \/ \E p \in Procs : EmbedEmpty(p)
    \/ \E p \in Procs : EmbedCall(p)
    \/ \E p \in Procs : ClearFetch(p)
    \/ \E p \in Procs : ClearDelete(p)
    \/ \E p \in Procs : BeginPublish(p)
    \/ \E p \in Procs : Publish(p)
    \/ \E p \in Procs : Finish(p)
    \/ \E p \in Procs : Return(p)

ConcSpec == ConcInit /\ [][ConcNext]_vars

(***************************************************************************)
(* Embedder.embed_chunks called directly, one step per call of the         *)
(* embedding service.                                                      *)
(***************************************************************************)
EmbedderInit ==
    /\ PipelineIdle
    /\ chunker = NoChunker
    /\ byWords = NoWords
    /\ search = NoSearch
    /\ byTokens = NoTokens
    /\ embedder \in EmbedderCalls

\* no early return: the service is asked about the empty input
EmbedChunksBeginProbe ==
    /\ embedder.state = "called"
    /\ embedder' =
          IF embedder.chunks = <<>>
          THEN [embedder EXCEPT !.state = "returned", !.embeddings = <<>>,
                                !.calls = Append(@, [text |-> <<>>, ok |-> TRUE])]
          ELSE IF embedder.batch_size = 0
          THEN [embedder EXCEPT !.state = "raised", !.err = "EmbeddingError"]
          ELSE IF embedder.batch_size < 0
          THEN [embedder EXCEPT !.state = "returned", !.embeddings = <<>>]
          ELSE [embedder EXCEPT !.state = "loop", !.i = 0, !.embeddings = <<>>]
    /\ UNCHANGED <<pipeline, chunker, byWords, search, byTokens>>

\* lines 101-106: the early return, and range(0, len(chunks), batch_size),
\* which raises for a step of zero and is empty for a negative step
EmbedChunksBegin ==
    /\ embedder.state = "called"
    /\ embedder' =
          IF embedder.chunks = <<>>
          THEN [embedder EXCEPT !.state = "returned", !.embeddings = <<>>]
          ELSE IF embedder.batch_size = 0
          THEN [embedder EXCEPT !.state = "raised", !.err = "EmbeddingError"]
          ELSE IF embedder.batch_size < 0
          THEN [embedder EXCEPT !.state = "returned", !.embeddings = <<>>]
          ELSE [embedder EXCEPT !.state = "loop", !.i = 0, !.embeddings = <<>>]
    /\ UNCHANGED <<pipeline, chunker, byWords, search, byTokens>>

\* lines 107-119 and 130-133: one call of the service and what follows it: the
\* end of the batch, the end of the loop, or the except clause
EmbedChunksCall ==
    /\ embedder.state = "loop"
    /\ LET batch == Batch(embedder.chunks, embedder.i, embedder.batch_size)
           chunk == batch[Len(embedder.responses) + 1]
           resp == Append(embedder.responses, EmbeddingOf(chunk))
           next == embedder.i + embedder.batch_size
       IN  \E ok \in BOOLEAN :
              LET called == [embedder EXCEPT
                                !.calls = Append(@, [text |-> chunk, ok |-> ok])]
              IN  embedder' =
                     IF ~ok
                     THEN [called EXCEPT !.state = "raised", !.responses = <<>>,
                                         !.embeddings = <<>>,
                                         !.err = "EmbeddingError"]
                     ELSE IF Len(resp) < Len(batch)
                     THEN [called EXCEPT !.responses = resp]
                     ELSE [called EXCEPT
                              !.responses = <<>>,
                              !.embeddings = Extend(@, resp),
                              !.i = next,
                              !.state = IF next < Len(embedder.chunks)
                                        THEN "loop" ELSE "returned"]
    /\ UNCHANGED <<pipeline, chunker, byWords, search, byTokens>>

EmbedderNext ==
    \/ EmbedChunksBegin
    \/ EmbedChunksCall

EmbedderSpec == EmbedderInit /\ [][EmbedderNext]_vars

(***************************************************************************)
(* Properties.                                                             *)
(***************************************************************************)
\* the chunks of the document of invocation p
DocChunks(p) ==
    ChunkWithOverlap(req[p].text, config.chunk_size, config.chunk_overlap)

\* N: the number of segments the document chunks into
ChunkCount(p) == Len(DocChunks(p))

\* the records of the ingestion of invocation p
ExpectedRecords(p) ==
    {CreateChunk(req[p].document_id, i, DocChunks(p)[i],
                 EffectiveTags(req[p].tags), EmbeddingOf(DocChunks(p)[i])) :
        i \in 1..ChunkCount(p)}

EmbedFailedAt(p, i) == ~embedCalls[p][i].ok
EmbedFailure(p) == \E i \in 1..Len(embedCalls[p]) : EmbedFailedAt(p, i)
ClearFailure(p) ==
    \/ \E i \in 1..Len(fetchLog[p]) : fetchLog[p][i] # "200"
    \/ \E i \in 1..Len(deleteLog[p]) : deleteLog[p][i] \notin {"200", "207"}
PublishFailedAt(p, k) == publishLog[p][k].answer # "200"

\* C1: a run of process_document that completes on a document of N chunks has
\* sent exactly the N chunk texts to the embedding service, in order, and has
\* issued exactly N publishes, the i-th with id {document_id}_chunk{i}.
C1_EmbedsAndPublishesN ==
    \A p \in Procs :
        stage[p] = "Complete" =>
            /\ Len(embedCalls[p]) = ChunkCount(p)
            /\ \A i \in 1..ChunkCount(p) : embedCalls[p][i].text = DocChunks(p)[i]
            /\ Len(publishLog[p]) = ChunkCount(p)
            /\ \A i \in 1..ChunkCount(p) :
                  publishLog[p][i].document.id = ChunkId(req[p].document_id, i)

C1_Witness ==
    \E p \in Procs :
        /\ stage[p] = "Complete"
        /\ ChunkCount(p) = 2
        /\ Len(publishLog[p]) = 2
        /\ Len(embedCalls[p]) = 2

\* C2: no publish is issued, and no stage after the clear is entered, unless
\* delete_all_files has been called in this invocation and has returned: its
\* search answered 200 and its bulk delete, if any, 200 or 207.  After a failed
\* clear no publish is issued.
C2_ClearBeforePublish ==
    \A p \in Procs :
        /\ (stage[p] \in {"IndexCleared", "Publishing", "Complete"}
              \/ publishLog[p] # <<>>) =>
              /\ cleared[p]
              /\ fetchLog[p] = <<"200">>
              /\ deleteLog[p] \in {<<>>, <<"200">>, <<"207">>}
        /\ (ClearFailure(p) \/ err[p] = "TypeError") => publishLog[p] = <<>>

C2_Witness ==
    \E p \in Procs :
        /\ publishLog[p] # <<>>
        /\ cleared[p]
        /\ deleteLog[p] = <<>>

\* C3: with one ingestion at a time, when an ingestion is Complete the index
\* holds exactly its records.
C3_IndexIsLastIngestion ==
    \A p \in Procs :
        stage[p] = "Complete" => (index = ExpectedRecords(p) /\ bulk = 0)

\* C4: a failed publish of chunk k fails the invocation, no later chunk is
\* published, and the records published before it stay in the index.
C4_PublishFailureStops ==
    \A p \in Procs :
        \A k \in 1..Len(publishLog[p]) :
            PublishFailedAt(p, k) =>
                /\ stage[p] = "Failed"
                /\ Len(publishLog[p]) = k
                /\ \A j \in 1..(k - 1) : publishLog[p][j].document \in index

\* C5: every non-success response of the index, to the search or the bulk
\* delete of delete_all_files or to an upload, fails the invocation with
\* AzureSearchError.
C5_NonSuccessIsError ==
    \A p \in Procs :
        (\/ "503" \in Range(fetchLog[p])
         \/ "503" \in Range(deleteLog[p])
         \/ \E k \in 1..Len(publishLog[p]) : publishLog[p][k].answer = "503") =>
            (stage[p] = "Failed" /\ err[p] = "AzureSearchError")

\* C6: when delete_all_files has returned, all of its requests answered 200,
\* the index is empty and the value returned is the number of records the
\* index held.
C6_ClearDeletesAll ==
    \A p \in Procs :
        (stage[p] = "IndexCleared" /\ deleteLog[p] \in {<<>>, <<"200">>}) =>
            /\ clearRet[p] = clearSeen[p]
            /\ index = {}
            /\ bulk = 0

\* C7: delete_all_files on an empty index issues no delete request, returns 0
\* and leaves the index empty.
C7_ClearOfEmptyIndex ==
    \A p \in Procs :
        clearSeen[p] = 0 =>
            /\ ~fetched[p].valid
            /\ deleteLog[p] = <<>>
            /\ stage[p] = "IndexCleared"
            /\ clearRet[p] = 0
            /\ index = {}
            /\ bulk = 0

C7_Witness ==
    \E p \in Procs :
        /\ clearSeen[p] = 0
        /\ fetchLog[p] = <<"200">>
        /\ clearRet[p] = 0
        /\ runs = 2

StageOrder == <<"NotStarted", "Uploaded", "Chunked", "Embedded", "IndexCleared",
                "Publishing", "Complete">>

StageStep(a, b) ==
    \/ a = b
    \/ \E i \in 1..(Len(StageOrder) - 1) : a = StageOrder[i] /\ b = StageOrder[i + 1]
    \/ a \notin Terminal /\ b = "Failed"
    \/ a = "Idle" /\ b = "NotStarted"
    \/ a \in Terminal /\ b = "Idle"

StagesFrom(s) ==
    {StageOrder[j] : j \in {i \in 1..Len(StageOrder) :
                              \E k \in 1..i : StageOrder[k] = s}}

C8_Order ==
    \A p \in Procs :
        /\ stage[p] \in StagesFrom("Uploaded") => FileName \in blobs
        /\ (chunks[p] # <<>> \/ embedCalls[p] # <<>>) =>
              (FileName \in blobs /\ stage[p] \in StagesFrom("Chunked") \cup {"Failed"})
        /\ (fetchLog[p] # <<>> \/ stage[p] \in StagesFrom("Embedded")) =>
              /\ Len(embeddings[p]) = ChunkCount(p)
              /\ Len(embedCalls[p]) = ChunkCount(p)
              /\ ~EmbedFailure(p)
        /\ stage[p] \in StagesFrom("IndexCleared") => cleared[p]
        /\ publishLog[p] # <<>> =>
              (cleared[p] /\ stage[p] \in {"Publishing", "Complete"})
        /\ stage[p] = "Complete" => Len(publishLog[p]) = ChunkCount(p)

\* C8: an invocation moves only from a stage to the next one of NotStarted,
\* Uploaded, Chunked, Embedded, IndexCleared, Publishing, Complete (or to
\* Failed); the blob is uploaded before chunking, every chunk is embedded
\* before the clear, the clear has returned before any publish, and Complete
\* comes after all N publishes.
C8_StageOrder ==
    /\ []C8_Order
    /\ [][\A p \in Procs : StageStep(stage[p], stage'[p])]_vars

C8_Witness ==
    \E p \in Procs :
        /\ stage[p] = "Complete"
        /\ Len(publishLog[p]) = 2
        /\ deleteLog[p] = <<"200">>

C9_Step(p) ==
    /\ stage[p] = "Failed" =>
          /\ stage'[p] \in {"Failed", "Idle"}
          /\ UNCHANGED <<index, bulk, blobs>>
          /\ stage'[p] = "Failed" =>
                /\ err'[p] = err[p]
                /\ embedCalls'[p] = embedCalls[p]
                /\ fetchLog'[p] = fetchLog[p]
                /\ deleteLog'[p] = deleteLog[p]
                /\ publishLog'[p] = publishLog[p]
    /\ stage[p] \in {"NotStarted", "Uploaded", "Chunked"} =>
          UNCHANGED <<index, bulk>>

\* C9: whenever a step of the pipeline has failed the invocation is Failed
\* and carries the error; a Failed invocation makes no further call and
\* changes nothing until it returns to its caller; no step before the clear
\* changes the index.
C9_FailedIsAbsorbing ==
    /\ [](\A p \in Procs :
            /\ (EmbedFailure(p) \/ ClearFailure(p)) => stage[p] = "Failed"
            /\ stage[p] = "Failed" => err[p] # "")
    /\ [][\A p \in Procs : C9_Step(p)]_vars

C9_Witness ==
    \E p \in Procs :
        /\ stage[p] = "Failed"
        /\ err[p] = "EmbeddingError"
        /\ index # {}

\* C10: a failed call of the embedding service raises EmbeddingError: it is
\* the last call embed_chunks makes, each chunk has been sent at most once, no
\* vector is returned, and the invocation is Failed without having reached
\* the index.  A failed embed_single raises EmbeddingError after one call.
C10_EmbeddingFailure ==
    /\ \A p \in Procs :
          EmbedFailure(p) =>
              /\ stage[p] = "Failed"
              /\ err[p] = "EmbeddingError"
              /\ embeddings[p] = <<>>
              /\ \A i \in 1..Len(embedCalls[p]) :
                    EmbedFailedAt(p, i) <=> i = Len(embedCalls[p])
              /\ Len(embedCalls[p]) <= Len(chunks[p])
              /\ \A i \in 1..Len(embedCalls[p]) : embedCalls[p][i].text = chunks[p][i]
              /\ fetchLog[p] = <<>>
              /\ publishLog[p] = <<>>
    /\ single.state = "done" =>
          /\ single.calls = 1
          /\ (single.result = <<>>) <=> (single.err = "EmbeddingError")
          /\ single.err \in {"", "EmbeddingError"}

C10_Witness ==
    \E p \in Procs :
        /\ Len(embedCalls[p]) = 2
        /\ embedCalls[p][1].ok
        /\ ~embedCalls[p][2].ok
        /\ stage[p] = "Failed"

(***************************************************************************)
(* Embedder.embed_chunks called directly (EmbedderSpec).                   *)
(***************************************************************************)
\* C11: for every list of chunks and every batch_size >= 1, the list
\* embed_chunks returns has the length of its input, its element i is the
\* vector of the service for chunks[i], and the service was called once per
\* chunk, in order; nothing of this depends on batch_size.
C11_OneVectorPerChunk ==
    (embedder.state = "returned" /\ embedder.batch_size >= 1) =>
        /\ Len(embedder.embeddings) = Len(embedder.chunks)
        /\ \A i \in 1..Len(embedder.chunks) :
              embedder.embeddings[i] = EmbeddingOf(embedder.chunks[i])
        /\ Len(embedder.calls) = Len(embedder.chunks)
        /\ \A i \in 1..Len(embedder.chunks) :
              embedder.calls[i] = [text |-> embedder.chunks[i], ok |-> TRUE]

\* a list of three chunks or more embedded in batches of two: a full batch,
\* then a shorter one or a second batch
C11_Witness ==
    /\ embedder.state = "returned"
    /\ embedder.batch_size = 2
    /\ Len(embedder.chunks) >= 3
    /\ embedder.chunks[1] # embedder.chunks[3]
    /\ Len(embedder.embeddings) = Len(embedder.chunks)

\* C12: embed_chunks on the empty list returns the empty list and makes no
\* call to the embedding service, whatever the batch_size.
C12_EmptyListNoCall ==
    (embedder.state # "called" /\ embedder.chunks = <<>>) =>
        /\ embedder.state = "returned"
        /\ embedder.embeddings = <<>>
        /\ embedder.calls = <<>>

C12_Witness ==
    /\ embedder.state = "returned"
    /\ embedder.chunks = <<>>
    /\ embedder.batch_size = 0
    /\ embedder.calls = <<>>

(***************************************************************************)
(* TextChunker.chunk_with_overlap called directly (ChunkerSpec).           *)
(***************************************************************************)
\* the parameters the contract of chunk_with_overlap rejects
InvalidCall == \/ chunker.max_tokens <= 0
               \/ chunker.overlap < 0
               \/ chunker.overlap >= chunker.max_tokens

\* C13: whenever max_tokens <= 0, overlap < 0 or overlap >= max_tokens,
\* chunk_with_overlap raises ValueError, for every text, the empty one
\* included, without having called the tokenizer; the error is not turned
\* into a ChunkerError.
C13_InvalidParamsRaiseFirst ==
    (InvalidCall /\ chunker.state # "called") =>
        /\ chunker.state = "raised"
        /\ chunker.err = "ValueError"
        /\ chunker.encodes = 0

\* the empty text with an overlap equal to max_tokens
C13_Witness ==
    /\ chunker.state = "raised"
    /\ chunker.err = "ValueError"
    /\ chunker.text = <<>>
    /\ chunker.max_tokens > 0
    /\ chunker.overlap = chunker.max_tokens

\* C14: for every valid (max_tokens, overlap), chunk_with_overlap on the
\* empty text raises nothing and returns the empty sequence.
C14_EmptyTextNoChunks ==
    (~InvalidCall /\ chunker.text = <<>>) =>
        /\ chunker.state # "raised"
        /\ chunker.err = ""
        /\ chunker.chunks = <<>>

\* the empty text with a positive overlap has returned
C14_Witness ==
    /\ chunker.state = "returned"
    /\ chunker.text = <<>>
    /\ chunker.overlap > 0
    /\ chunker.encodes = 1
    /\ chunker.chunks = <<>>

\* C15: each window of chunk_with_overlap holds at most max_tokens tokens,
\* and every window except possibly the last holds exactly max_tokens.
C15_WindowSizes ==
    chunker.state = "returned" =>
        \A i \in 1..Len(chunker.chunks) :
            /\ Len(chunker.chunks[i]) <= chunker.max_tokens
            /\ i < Len(chunker.chunks) => Len(chunker.chunks[i]) = chunker.max_tokens

\* C16: every two consecutive windows, the last two included, share exactly
\* overlap tokens: the last overlap tokens of window i are the first overlap
\* tokens of window i+1.
C16_ExactOverlap ==
    chunker.state = "returned" =>
        \A i \in 1..(Len(chunker.chunks) - 1) :
            LET a == chunker.chunks[i]
                b == chunker.chunks[i + 1]
                o == chunker.overlap
            IN  /\ Len(a) >= o
                /\ Len(b) >= o
                /\ SubSeq(a, Len(a) - o + 1, Len(a)) = SubSeq(b, 1, o)

\* a window without its leading n tokens, all of it when it has fewer
Drop(w, n) == SubSeq(w, Min(n, Len(w)) + 1, Len(w))

\* the windows put together in order, each one after the first without its
\* leading overlap tokens
RECURSIVE Stitch(_, _)
Stitch(windows, overlap) ==
    IF Len(windows) = 0 THEN <<>>
    ELSE IF Len(windows) = 1 THEN windows[1]
    ELSE Stitch(SubSeq(windows, 1, Len(windows) - 1), overlap)
            \o Drop(windows[Len(windows)], overlap)

\* C17: the windows cover every token position, and stitching them in order,
\* each after the first without its leading overlap tokens, gives back the
\* token stream: nothing dropped, duplicated or reordered.
C17_StitchRestores ==
    chunker.state = "returned" =>
        /\ \A t \in 1..Len(chunker.tokens) :
              \E i \in 1..Len(chunker.chunks) :
                  chunker.tokens[t] \in Range(chunker.chunks[i])
        /\ Stitch(chunker.chunks, chunker.overlap) = chunker.tokens

\* three windows or more, the last one shorter than the overlap
C17_Witness ==
    /\ chunker.state = "returned"
    /\ Len(chunker.chunks) >= 3
    /\ chunker.overlap >= 2
    /\ Len(chunker.chunks[Len(chunker.chunks)]) < chunker.overlap

CeilDiv(a, b) == (a + b - 1) \div b

\* C18: for a stream of T tokens chunk_with_overlap returns
\* ceil(max(0, T - overlap) / (max_tokens - overlap)) chunks.
C18_ChunkCount ==
    chunker.state = "returned" =>
        Len(chunker.chunks) =
            CeilDiv(Max(0, Len(chunker.tokens) - chunker.overlap),
                    chunker.max_tokens - chunker.overlap)

\* C19: no window appended by chunk_with_overlap is empty.
C19_NoEmptyChunk ==
    \A i \in 1..Len(chunker.chunks) : Len(chunker.chunks[i]) >= 1

\* the loop has appended a last window of one token after a longer one
C19_Witness ==
    /\ chunker.state = "returned"
    /\ Len(chunker.chunks) >= 2
    /\ Len(chunker.chunks[Len(chunker.chunks)]) = 1
    /\ Len(chunker.chunks[1]) = chunker.max_tokens

(***************************************************************************)
(* The ingestion of an empty document (Spec).                              *)
(***************************************************************************)
\* the failures of an ingestion that come from its environment or its
\* configuration: the blob store, the file, the chunk parameters, the index
ExternalFailures == {"BlobUploadError", "UnicodeDecodeError", "ValueError",
                     "AzureSearchError"}

\* C20: the ingestion of an empty document makes no embedding call and no
\* publish, does not fail on its own account, and when it is Complete
\* delete_all_files has run and the index is empty.
C20_EmptyDocument ==
    \A p \in Procs :
        (req[p].file_exists /\ req[p].document_id # <<>> /\ req[p].text = <<>>) =>
            /\ embedCalls[p] = <<>>
            /\ publishLog[p] = <<>>
            /\ stage[p] = "Failed" => err[p] \in ExternalFailures
            /\ stage[p] = "Complete" => (cleared[p] /\ index = {} /\ bulk = 0)

(***************************************************************************)
(* Failures of process_document (Spec).                                    *)
(***************************************************************************)
\* the invocation of p has raised FileNotFoundError: it made no remote call
C21_NoCallMade ==
    \A p \in Procs :
        /\ (stage[p] # "Idle" /\ ~req[p].file_exists) =>
              (stage[p] = "Failed" /\ err[p] = "FileNotFoundError")
        /\ err[p] = "FileNotFoundError" =>
              /\ stage[p] = "Failed"
              /\ ~req[p].file_exists
              /\ embedCalls[p] = <<>>
              /\ fetchLog[p] = <<>>
              /\ deleteLog[p] = <<>>
              /\ publishLog[p] = <<>>

\* the step that raises FileNotFoundError, and every step until the caller
\* has the error, leave the index and the blob store as they are
C21_Step(p) ==
    /\ (stage[p] = "Idle" /\ stage'[p] # "Idle" /\ ~req'[p].file_exists) =>
          /\ stage'[p] = "Failed"
          /\ err'[p] = "FileNotFoundError"
          /\ UNCHANGED <<index, bulk, blobs>>
    /\ err[p] = "FileNotFoundError" => UNCHANGED <<index, bulk, blobs>>

\* C21: when the source document does not exist, process_document raises
\* FileNotFoundError before any blob upload, embedding call, search or
\* delete request or publish, and the index and the blob store are unchanged.
C21_NotFoundFirst ==
    /\ []C21_NoCallMade
    /\ [][\A p \in Procs : C21_Step(p)]_vars

\* a missing file, given after an ingestion that filled the index
C21_Witness ==
    \E p \in Procs :
        /\ stage[p] = "Failed"
        /\ err[p] = "FileNotFoundError"
        /\ index # {}
        /\ blobs # {}

(***************************************************************************)
(* Two ingestions at the same time (ConcSpec).                             *)
(***************************************************************************)
\* the records the index accepted from the invocation of p
Published(p) ==
    {publishLog[p][k].document :
        k \in {j \in 1..Len(publishLog[p]) : publishLog[p][j].answer = "200"}}

\* C22: delete_all_files followed by the publish loop is not safe under
\* interleaving: when two ingestions have both found the index empty,
\* neither deletes anything, and once both are Complete the index holds the
\* records of the one and of the other, not the chunk set of a single one.
C22_InterleavedClearKeepsBoth ==
    \A p \in Procs : \A q \in Procs \ {p} :
        (/\ stage[p] = "Complete" /\ stage[q] = "Complete"
         /\ deleteLog[p] = <<>> /\ deleteLog[q] = <<>>) =>
            index = Published(p) \cup Published(q)

\* both ingestions are Complete and the index holds records of both
\* documents: it is the chunk set of neither
C22_Witness ==
    \E p \in Procs : \E q \in Procs \ {p} :
        /\ stage[p] = "Complete" /\ stage[q] = "Complete"
        /\ req[p].document_id # req[q].document_id
        /\ \E r \in index : r.document_id = req[p].document_id
        /\ \E r \in index : r.document_id = req[q].document_id
        /\ index # ExpectedRecords(p)
        /\ index # ExpectedRecords(q)

(***************************************************************************)
(* Remote calls of one ingestion (Spec).                                   *)
(***************************************************************************)
\* C23: within one ingestion no remote call is retried: call k of the
\* embedding service is for chunk k and a failed call is the last one, the
\* search request and the bulk delete of delete_all_files are each issued at
\* most once, and publish k is for chunk index k, whatever the answers were.
C23_NoRetry ==
    \A p \in Procs :
        /\ Len(embedCalls[p]) <= Len(chunks[p])
        /\ \A k \in 1..Len(embedCalls[p]) :
              /\ embedCalls[p][k].text = chunks[p][k]
              /\ ~embedCalls[p][k].ok => k = Len(embedCalls[p])
        /\ Len(fetchLog[p]) <= 1
        /\ Len(deleteLog[p]) <= 1
        /\ (fetchLog[p] # <<>> /\ FetchFailed(fetchLog[p][1])) => deleteLog[p] = <<>>
        /\ Len(publishLog[p]) <= Len(chunks[p])
        /\ \A k \in 1..Len(publishLog[p]) :
              publishLog[p][k].document.id = ChunkId(req[p].document_id, k)

\* a publish answered 503 was followed by the publish of the next chunk, and
\* the ingestion is Complete
C23_Witness ==
    \E p \in Procs :
        /\ stage[p] = "Complete"
        /\ Len(publishLog[p]) = 2
        /\ publishLog[p][1].answer = "503"
        /\ Len(embedCalls[p]) = 2

\* C24: the error process_document raises is the first fatal error of the
\* ingestion, in its own kind: an invalid chunk configuration stops it at
\* chunking, a failed embedding call gives EmbeddingError, a failed request
\* to the index (search, delete or upload) gives AzureSearchError.
C24_FirstErrorUnchanged ==
    \A p \in Procs :
        /\ ~ValidChunkParams(config.chunk_size, config.chunk_overlap) =>
              stage[p] \in {"Idle", "NotStarted", "Uploaded", "Failed"}
        /\ EmbedFailure(p) => (stage[p] = "Failed" /\ err[p] = "EmbeddingError")
        /\ ClearFailure(p) => (stage[p] = "Failed" /\ err[p] = "AzureSearchError")
        /\ (\E k \in 1..Len(publishLog[p]) : PublishFailedAt(p, k)) =>
              (stage[p] = "Failed" /\ err[p] = "AzureSearchError")

(***************************************************************************)
(* Termination of an ingestion (LiveSpec).                                 *)
(***************************************************************************)
\* C25: every ingestion that has started eventually is Complete or Failed:
\* no remote call blocks it forever.
C25_Terminates ==
    \A p \in Procs : [](stage[p] # "Idle" => <>(stage[p] \in Terminal))

(***************************************************************************)
(* The records an ingestion publishes (Spec).                              *)
(***************************************************************************)
\* C26: every record an ingestion publishes carries the same tag list: the
\* tags of the caller when it gave some, the single tag "technical section"
\* when it gave none; no record is published with an empty tag list.
C26_TagsOfRecords ==
    \A p \in Procs : \A k \in 1..Len(publishLog[p]) :
        LET tags == publishLog[p][k].document.tags
        IN  /\ tags # <<>>
            /\ req[p].tags # <<>> => tags = req[p].tags
            /\ req[p].tags = <<>> => tags = <<"technical section">>
            /\ tags = publishLog[p][1].document.tags

\* two records published for a caller that gave no tags
C26_Witness ==
    \E p \in Procs :
        /\ Len(publishLog[p]) = 2
        /\ req[p].tags = <<>>
        /\ publishLog[p][2].document.tags = <<"technical section">>

\* C27: the id of a record is the document id, the text "_chunk" and the
\* decimal chunk index, and depends on nothing else (neither the tags nor the
\* text of the chunk): an ingestion of the same document gives the same id to
\* the same chunk index, and within one ingestion different chunk indices
\* give different ids, so that no publish of an ingestion overwrites another
\* record of the same ingestion.
C27_IdsFromDocumentAndIndex ==
    LET digits == <<"1", "2", "3", "4", "5", "6", "7", "8", "9">>
    IN  /\ \A p \in Procs : \A k \in 1..Len(publishLog[p]) :
               k <= 9 => publishLog[p][k].document.id
                           = req[p].document_id \o <<"_", "c", "h", "u", "n", "k", digits[k]>>
        /\ \A p \in Procs : \A j, k \in 1..Len(publishLog[p]) :
               j # k => publishLog[p][j].document.id # publishLog[p][k].document.id

\* an ingestion with tags of its own that has published two records
C27_Witness ==
    \E p \in Procs :
        /\ req[p].tags # <<>>
        /\ Len(publishLog[p]) = 2
        /\ publishLog[p][1].document.content # publishLog[p][2].document.content

(***************************************************************************)
(* TextChunker.chunk_text_by_words called directly (WordsSpec).            *)
(***************************************************************************)
WordsInit ==
    /\ PipelineIdle
    /\ chunker = NoChunker
    /\ embedder = NoEmbedder
    /\ byWords \in WordsCalls
    /\ search = NoSearch
    /\ byTokens = NoTokens

\* line 72: self._validate_chunk_params(max_tokens)
WordsValidate ==
    /\ byWords.state = "called"
    /\ byWords' = IF ValidMaxTokens(byWords.max_tokens)
                  THEN [byWords EXCEPT !.state = "validated"]
                  ELSE [byWords EXCEPT !.state = "raised", !.err = "ValueError"]
    /\ UNCHANGED <<pipeline, chunker, embedder, search, byTokens>>

\* line 74: words = text.split()
WordsSplit ==
    /\ byWords.state = "validated"
    /\ byWords' = [byWords EXCEPT !.state = "split", !.words = Split(byWords.text)]
    /\ UNCHANGED <<pipeline, chunker, embedder, search, byTokens>>

\* lines 75-78: the list of joined windows is returned
WordsReturn ==
    /\ byWords.state = "split"
    /\ byWords' = [byWords EXCEPT
                      !.state = "returned",
                      !.chunks = WordChunks(byWords.words, byWords.max_tokens, 0)]
    /\ UNCHANGED <<pipeline, chunker, embedder, search, byTokens>>

WordsNext ==
    \/ WordsValidate
    \/ WordsSplit
    \/ WordsReturn

WordsSpec == WordsInit /\ [][WordsNext]_vars

RECURSIVE Flatten(_)
\* the concatenation of a sequence of sequences
Flatten(seqs) == IF seqs = <<>> THEN <<>> ELSE Head(seqs) \o Flatten(Tail(seqs))

\* C28: chunk_text_by_words slides a window without overlap over the words of
\* the text: for max_tokens > 0 every chunk has between 1 and max_tokens
\* words, every chunk but the last has exactly max_tokens words, the words of
\* the chunks in order are exactly the words of the text, and a text with no
\* words gives no chunk.
C28_WordWindows ==
    (byWords.state = "returned" /\ byWords.max_tokens > 0) =>
        LET result == byWords.chunks
            n == Len(result)
            wordsOf == [k \in 1..n |-> Split(result[k])]
        IN  /\ \A k \in 1..n : Len(wordsOf[k]) \in 1..byWords.max_tokens
            /\ \A k \in 1..(n - 1) : Len(wordsOf[k]) = byWords.max_tokens
            /\ Flatten(wordsOf) = Split(byWords.text)
            /\ Split(byWords.text) = <<>> => result = <<>>

\* a text of three words, with whitespace of both kinds around them, cut into
\* a full chunk and a shorter last one
C28_Witness ==
    /\ byWords.state = "returned"
    /\ byWords.max_tokens = 2
    /\ Len(byWords.chunks) = 2
    /\ Len(Split(byWords.chunks[2])) = 1
    /\ "\n" \in Range(byWords.text)

(***************************************************************************)
(* AzureSearchClient.search_documents (SearchSpec).                        *)
(***************************************************************************)
\* a validation that lets a negative skip through
ValidSearchParamsNoSkip(query, top, skip) ==
    /\ query # ""
    /\ top >= 1

\* lines 100-107: the three checks before the try block
ValidSearchParams(query, top, skip) ==
    /\ query # ""
    /\ top >= 1
    /\ skip >= 0

\* lines 111-130: the payload; "filter" and "orderby" are present only when
\* filter_tags and order_by are given, <<>> and "" stand for an absent key
Payload(call) ==
    [search |-> call.query,
     select |-> "id,documentid,content,tags",
     top |-> Min(call.top, SearchTopLimit),
     skip |-> call.skip,
     count |-> TRUE,
     filter |-> [k \in 1..Len(call.filter_tags) |-> <<"tags/any", call.filter_tags[k]>>],
     orderby |-> call.order_by]

\* every status of success taken for a result
StatusOkAny2xx(status) == status \in 200..299

\* line 142: if response.status_code != 200
StatusOk(status) == status = 200

\* SearchResult.from_json raises KeyError without 'id' or 'documentid'
HasRequiredKeys(doc) == {"id", "documentid"} \subseteq DOMAIN doc

\* SearchResult.from_json: defaults for the optional keys; the score is a JSON
\* number, whose value float() keeps
FromJson(doc) ==
    [id |-> doc.id,
     document_id |-> doc.documentid,
     content |-> IF "content" \in DOMAIN doc THEN doc.content ELSE "",
     score |-> IF "score" \in DOMAIN doc THEN doc.score ELSE 0,
     tags |-> IF "tags" \in DOMAIN doc THEN doc.tags ELSE <<>>]

SearchInit ==
    /\ PipelineIdle
    /\ chunker = NoChunker
    /\ embedder = NoEmbedder
    /\ byWords = NoWords
    /\ search \in SearchCalls
    /\ byTokens = NoTokens

\* lines 100-107
SearchValidate ==
    /\ search.state = "called"
    /\ search' = IF ValidSearchParams(search.query, search.top, search.skip)
                 THEN [search EXCEPT !.state = "validated"]
                 ELSE [search EXCEPT !.state = "raised", !.err = "ValueError"]
    /\ UNCHANGED <<pipeline, chunker, embedder, byWords, byTokens>>

\* lines 134-139: requests.post(..., timeout=30) returns a response or raises
\* a RequestException, which lines 159-160 turn into AzureSearchError
SearchPost ==
    /\ search.state = "validated"
    /\ \E a \in Answers :
          search' = IF a.kind = "exception"
                    THEN [search EXCEPT !.state = "raised", !.answer = a,
                                        !.sent = Append(@, Payload(search)),
                                        !.err = "AzureSearchError"]
                    ELSE [search EXCEPT !.state = "answered", !.answer = a,
                                        !.sent = Append(@, Payload(search))]
    /\ UNCHANGED <<pipeline, chunker, embedder, byWords, byTokens>>

\* lines 142-157: the status check, response.json() and from_json of every
\* record of data.get("value", []); whatever is raised there leaves as
\* AzureSearchError (lines 161-162)
SearchParse ==
    /\ search.state = "answered"
    /\ LET a == search.answer
           value == IF a.keyed THEN a.value ELSE <<>>
       IN  search' =
             IF /\ StatusOk(a.status)
                /\ a.json
                /\ \A k \in 1..Len(value) : HasRequiredKeys(value[k])
             THEN [search EXCEPT !.state = "returned",
                                 !.results = [k \in 1..Len(value) |-> FromJson(value[k])]]
             ELSE [search EXCEPT !.state = "raised", !.err = "AzureSearchError"]
    /\ UNCHANGED <<pipeline, chunker, embedder, byWords, byTokens>>

SearchNext ==
    \/ SearchValidate
    \/ SearchPost
    \/ SearchParse

SearchSpec == SearchInit /\ [][SearchNext]_vars

\* C29: search_documents rejects an empty query, top < 1 and skip < 0 with
\* ValueError, and sends no request to the search service in these cases.
C29_InvalidSearchRejected ==
    (/\ search.state \notin {"idle", "called"}
     /\ (search.query = "" \/ search.top < 1 \/ search.skip < 0))
        => /\ search.state = "raised"
           /\ search.err = "ValueError"
           /\ search.sent = <<>>
           /\ search.answer = NoAnswer

\* a call whose only invalid argument is skip = -1 has been rejected
C29_Witness ==
    /\ search.state = "raised"
    /\ search.query # ""
    /\ search.top >= 1
    /\ search.skip = -1
    /\ search.err = "ValueError"

\* C30: search_documents raises AzureSearchError whenever the service answers
\* with a status other than 200 or the request fails; it returns a result
\* list only for a 200 response, with one SearchResult per record of the
\* answer, in the order of the answer.
C30_SearchAnswers ==
    /\ (/\ search.state \in {"raised", "returned"}
        /\ \/ search.answer.kind = "exception"
           \/ search.answer.kind = "response" /\ search.answer.status # 200)
            => search.state = "raised" /\ search.err = "AzureSearchError"
    /\ search.state = "returned"
            => /\ search.answer.kind = "response"
               /\ search.answer.status = 200
               /\ Len(search.sent) = 1
               /\ Len(search.results) = Len(search.answer.value)
               /\ \A k \in 1..Len(search.results) :
                      /\ search.results[k].id = search.answer.value[k].id
                      /\ search.results[k].document_id = search.answer.value[k].documentid

\* two records returned in the order of the answer, the better score first
C30_Witness ==
    /\ search.state = "returned"
    /\ Len(search.results) = 2
    /\ search.results[1].id = "doc1"
    /\ search.results[2].id = "doc2"
    /\ search.results[1].score > search.results[2].score

C33_Iteration ==
    /\ chunker.state = "loop"
    /\ chunker'.state = "loop"
    /\ chunker' # chunker

\* C33: the loop of chunk_with_overlap terminates for every token stream and
\* every valid (max_tokens, overlap): each iteration increases start by
\* max_tokens - overlap >= 1, the loop runs at most T iterations for a stream
\* of T tokens, and the call returns or raises.
C33_LoopTerminates ==
    /\ [][C33_Iteration =>
             /\ chunker.max_tokens - chunker.overlap >= 1
             /\ chunker'.start = chunker.start + chunker.max_tokens - chunker.overlap
             /\ chunker'.start > chunker.start
             /\ Len(chunker'.chunks) = Len(chunker.chunks) + 1]_vars
    /\ [](chunker.state \in {"loop", "returned"}
             => Len(chunker.chunks) <= Len(chunker.tokens))
    /\ <>(chunker.state \in {"returned", "raised"})

\* a stream of three tokens or more walked in steps of one token: as many
\* iterations as tokens, and the call has returned
C33_Witness ==
    /\ chunker.state = "returned"
    /\ chunker.max_tokens - chunker.overlap = 1
    /\ chunker.overlap >= 1
    /\ Len(chunker.tokens) >= 3
    /\ Len(chunker.chunks) = Len(chunker.tokens)

(***************************************************************************)
(* One call of delete_all_files (Spec).                                    *)
(***************************************************************************)
\* the requests of one call and the page it holds
C34_OnePage ==
    \A p \in Procs :
        /\ Len(fetchLog[p]) <= 1
        /\ Len(deleteLog[p]) <= 1
        /\ deleteLog[p] # <<>> => fetchLog[p] = <<"200">>
        /\ fetched[p].valid =>
              /\ PageSize(fetched[p]) \in 1..DefaultBatchSize
              /\ fetched[p].ids \subseteq Ids(index)
              /\ fetchLog[p] = <<"200">>
              /\ deleteLog[p] = <<>>
        /\ (stage[p] = "IndexCleared" /\ clearRet[p] = 0) => deleteLog[p] = <<>>
        /\ (stage[p] = "IndexCleared" /\ clearRet[p] > 0) =>
              /\ Len(deleteLog[p]) = 1
              /\ clearRet[p] <= DefaultBatchSize

\* the bulk delete of invocation p: what it removes is part of the page
C34_Delete(p) ==
    Len(deleteLog'[p]) > Len(deleteLog[p]) =>
        /\ fetched[p].valid
        /\ index' \subseteq index
        /\ Ids(index) \ Ids(index') \subseteq fetched[p].ids
        /\ bulk' <= bulk
        /\ bulk - bulk' <= fetched[p].bulk
        /\ (Cardinality(index) + bulk) - (Cardinality(index') + bulk') <= DefaultBatchSize
        /\ Cardinality(index') + bulk' >= clearSeen[p] - DefaultBatchSize
        /\ deleteLog'[p] = <<"200">> =>
              /\ Ids(index') = Ids(index) \ fetched[p].ids
              /\ bulk' = bulk - fetched[p].bulk

C35_CountByStride ==
    chunker.state = "returned" =>
        LET T == Len(chunker.tokens)
            s == chunker.max_tokens - chunker.overlap
            n == Len(chunker.chunks)
        IN  /\ s >= 1
            /\ n = (T + s - 1) \div s
            /\ \A i \in 1..n :
                   /\ (i - 1) * s < T
                   /\ chunker.chunks[i]
                         = SubSeq(chunker.tokens, (i - 1) * s + 1,
                                  Min((i - 1) * s + chunker.max_tokens, T))
            /\ n * s >= T

\* the last window lies entirely inside the one before it
C35_Witness ==
    /\ chunker.state = "returned"
    /\ Len(chunker.chunks) >= 2
    /\ LET n == Len(chunker.chunks)
           last == chunker.chunks[n]
           before == chunker.chunks[n - 1]
       IN  /\ Len(last) < Len(before)
           /\ last = SubSeq(before, Len(before) - Len(last) + 1, Len(before))

(***************************************************************************)
(* TextChunker.chunk_by_tokens next to chunk_with_overlap with overlap 0   *)
(* on the same text (TokensSpec).                                          *)
(***************************************************************************)
RECURSIVE TokenBlocksFullOnly(_, _, _)
\* only the blocks of max_tokens tokens, without the shorter one at the end
TokenBlocksFullOnly(tokens, max_tokens, i) ==
    IF i + max_tokens <= Len(tokens)
    THEN <<Slice(tokens, i, i + max_tokens)>>
             \o TokenBlocksFullOnly(tokens, max_tokens, i + max_tokens)
    ELSE <<>>

RECURSIVE TokenBlocks(_, _, _)
\* [tokens[i:i + max_tokens] for i in range(i, len(tokens), max_tokens)]
TokenBlocks(tokens, max_tokens, i) ==
    IF i < Len(tokens)
    THEN <<Slice(tokens, i, Min(i + max_tokens, Len(tokens)))>>
             \o TokenBlocks(tokens, max_tokens, i + max_tokens)
    ELSE <<>>

\* the two calls are given the same text and max_tokens, overlap is 0
TokensInit ==
    /\ PipelineIdle
    /\ byTokens \in TokensCalls
    /\ chunker = [NoChunker EXCEPT !.state = "called", !.text = byTokens.text,
                                   !.max_tokens = byTokens.max_tokens,
                                   !.overlap = 0]
    /\ embedder = NoEmbedder
    /\ byWords = NoWords
    /\ search = NoSearch

\* line 99: self._validate_chunk_params(max_tokens), outside the try
TokensValidate ==
    /\ byTokens.state = "called"
    /\ byTokens' = IF ValidMaxTokens(byTokens.max_tokens)
                   THEN [byTokens EXCEPT !.state = "validated"]
                   ELSE [byTokens EXCEPT !.state = "raised", !.err = "ValueError"]
    /\ UNCHANGED <<pipeline, chunker, embedder, byWords, search>>

\* line 102: tokens = self._tokenizer.encode(text); lines 108-109 when it raises
TokensEncode ==
    /\ byTokens.state = "validated"
    /\ \E ok \in BOOLEAN :
          byTokens' = IF ok \/ ~TokenizerMayRaise(byTokens.text)
                      THEN [byTokens EXCEPT !.state = "encoded",
                                            !.tokens = byTokens.text]
                      ELSE [byTokens EXCEPT !.state = "raised",
                                            !.err = "ChunkerError"]
    /\ UNCHANGED <<pipeline, chunker, embedder, byWords, search>>

\* lines 103-107: the blocks are cut and decoded; decode may raise
TokensReturn ==
    /\ byTokens.state = "encoded"
    /\ \E ok \in BOOLEAN :
          byTokens' = IF ok \/ byTokens.tokens = <<>>
                      THEN [byTokens EXCEPT
                               !.state = "returned",
                               !.chunks = TokenBlocks(byTokens.tokens,
                                                      byTokens.max_tokens, 0)]
                      ELSE [byTokens EXCEPT !.state = "raised",
                                            !.err = "ChunkerError"]
    /\ UNCHANGED <<pipeline, chunker, embedder, byWords, search>>

TokensNext ==
    \/ TokensValidate
    \/ TokensEncode
    \/ TokensReturn
    \/ ChunkValidate
    \/ ChunkEncode
    \/ ChunkIterate
    \/ ChunkReturn

TokensSpec == TokensInit /\ [][TokensNext]_vars

\* C36: chunk_by_tokens(text, m) returns the same sequence of chunks as
\* chunk_with_overlap(text, m, overlap=0) for every text and every m > 0, and
\* the chunks are consecutive disjoint blocks that make up the token stream.
C36_TokensAsOverlapZero ==
    (/\ byTokens.max_tokens > 0
     /\ byTokens.state = "returned"
     /\ chunker.state = "returned")
        => /\ byTokens.chunks = chunker.chunks
           /\ Flatten(byTokens.chunks) = byTokens.text
           /\ Flatten(chunker.chunks) = chunker.text

\* both calls have returned the same three blocks, the last one shorter
C36_Witness ==
    /\ byTokens.state = "returned"
    /\ chunker.state = "returned"
    /\ chunker.overlap = 0
    /\ Len(byTokens.chunks) = 3
    /\ Len(byTokens.chunks[3]) < Len(byTokens.chunks[1])
    /\ byTokens.chunks = chunker.chunks

(***************************************************************************)
(* The count delete_all_files returns (Spec).                              *)
(***************************************************************************)
\* C37: the count delete_all_files returns is the number of records removed
\* from the index, also when the bulk delete is answered with 207: when it
\* has returned c > 0, the index holds c records fewer than when it answered
\* the search, and none of the c fetched records is still in it.
C37_CountIsRemoved ==
    \A p \in Procs :
        (stage[p] = "IndexCleared" /\ clearRet[p] > 0) =>
            Cardinality(index) + bulk = clearSeen[p] - clearRet[p]

====
